---- MODULE Spec2Model ----
(***************************************************************************)
(* A model of the go-middleware package: the Chain type and its Then       *)
(* engine (chain.go), the context metadata store (metadata.go), the       *)
(* built-in stages (bultin.go, observability.go) and the business stage   *)
(* of cmd/main.go.                                                         *)
(*                                                                         *)
(* Go values are modelled as tagged tuples: <<"nil">>, <<"int", 3>>,        *)
(* <<"string", "x">>, <<"bool", TRUE>>.  Contexts, backing arrays of       *)
(* slices and *Chain objects live in heaps and are referred to by id, so   *)
(* that sharing and in-place mutation are things the model can exhibit.    *)
(***************************************************************************)
EXTENDS Integers, Sequences, FiniteSets, TLC

VARIABLES
    ctxs,       \* memory of context.valueCtx nodes: arena -> Seq([parent, key, val])
    arrays,     \* heap of backing arrays of []MiddlewareFunc: id -> Seq(stage)
    chains,     \* heap of *Chain objects: id -> [middlewares, name]
    callerSlices, \* ids of the arrays the caller holds a slice of
    runs,       \* one record per invocation of Chain.Then
    born,       \* observer: per chain, its stage sequence and name at construction
    ops,        \* observer: log of the Append / Prepend / Clone calls made
    clock,      \* the wall clock read by time.Now()
    bucket,     \* the tokenBucket captured by one RateLimit stage instance
    procs,      \* one record per invocation of that RateLimit stage
    hist,       \* observer: log of refills and of completed RateLimit invocations
    serial,     \* TRUE when the caller invokes the RateLimit stage one call at a time
    metaLog     \* observer: log of the calls made on the metadata store

vars == <<ctxs, arrays, chains, callerSlices, runs, born, ops,
          clock, bucket, procs, hist, serial, metaLog>>

chainVars == <<arrays, chains, callerSlices, born, ops>>
rateVars == <<clock, bucket, procs, hist, serial>>

-----------------------------------------------------------------------------
(* Bounds of the model *)

MaxStages == 3
MaxRuns == 2
MaxRunStages == 3
MaxChains == 3
MaxCapacity == 2
MaxInterval == 2
MaxClock == 3
MaxInvocations == 4
MaxConcurrent == 2
MaxBuiltinStages == 3
MaxMetaOps == 2

-----------------------------------------------------------------------------
(* Go values *)

Nil == <<"nil">>
NoErr == <<"nil">>
IntVal(n) == <<"int", n>>
StrVal(s) == <<"string", s>>
BoolVal(b) == <<"bool", b>>

-----------------------------------------------------------------------------
(* Context keys.  A key is <<Go type of the key, its value>>: two keys are *)
(* equal only when both the dynamic type and the value agree.              *)

ChainNameKey == <<"chainNameKey", "">>
MiddlewareIndexKey == <<"middlewareIndexKey", "">>
requestKey == <<"metadataKey", "request_id">>
userKey == <<"metadataKey", "user">>
StringKey(s) == <<"string", s>>
StartTimeKey == <<"observabilityKey", "start_time">>
\* The unexported key types of package context (a timerCtx answers to
\* &cancelCtxKey) and of the tracer (ContextWithSpan).
cancelCtxKey == <<"context.cancelCtxKey", "">>
activeSpanKey == <<"tracer.contextKey", "">>

-----------------------------------------------------------------------------
(* context.Context.  A context is the address of a valueCtx node, or      *)
(* Background, the root.  The heap h is [mem, arena]: mem maps an address  *)
(* <<a, n>> to the n-th node allocated in arena a, and arena names the    *)
(* allocating goroutine (0 is the caller before any run), so that fresh   *)
(* addresses do not depend on how goroutines interleave.  WithValue       *)
(* allocates a node that points at its parent; Value walks to the root.   *)

Background == <<0, 0>>

Node(h, ctx) == h.mem[ctx[1]][ctx[2]]

WithValue(h, parent, key, val) ==
    [heap |-> [h EXCEPT !.mem[h.arena] =
                   Append(@, [parent |-> parent, key |-> key, val |-> val])],
     ctx |-> <<h.arena, Len(h.mem[h.arena]) + 1>>]

RECURSIVE Value(_, _, _)
Value(h, ctx, key) ==
    IF ctx = Background THEN Nil
    ELSE IF Node(h, ctx).key = key THEN Node(h, ctx).val
    ELSE Value(h, Node(h, ctx).parent, key)

\* The nodes on the path from ctx to the root.
RECURSIVE CtxPath(_, _)
CtxPath(h, ctx) ==
    IF ctx = Background THEN {} ELSE {ctx} \cup CtxPath(h, Node(h, ctx).parent)

\* context.WithTimeout: a timerCtx node that holds its deadline and whether
\* it has been cancelled.  The CancelFunc it returns is Cancel on that node.
WithTimeout(h, parent, deadline) ==
    WithValue(h, parent, cancelCtxKey, <<"timer", deadline, FALSE>>)

Cancel(h, ctx) ==
    [h EXCEPT !.mem[ctx[1]][ctx[2]].val = <<"timer", @[2], TRUE>>]

Canceled == <<"err", "context canceled">>
DeadlineExceeded == <<"err", "context deadline exceeded">>

\* ctx.Err() at time now: a context is done as soon as it or an ancestor
\* has been cancelled or has passed its deadline.
RECURSIVE CtxErr(_, _, _)
CtxErr(h, ctx, now) ==
    IF ctx = Background THEN NoErr
    ELSE LET n == Node(h, ctx)
         IN IF n.key = cancelCtxKey /\ n.val[3] THEN Canceled
            ELSE IF n.key = cancelCtxKey /\ now >= n.val[2] THEN DeadlineExceeded
            ELSE CtxErr(h, n.parent, now)

\* AddMetadata that converts its key to metadataKey before storing.
AddMetadataAsMetadataKey(h, ctx, key, value) ==
    WithValue(h, ctx, <<"metadataKey", key>>, value)

AddMetadata(h, ctx, key, value) == WithValue(h, ctx, StringKey(key), value)

\* value := ctx.Value(key); return value, value != nil
GetMetadata(h, ctx, key) ==
    LET value == Value(h, ctx, StringKey(key))
    IN [val |-> value, ok |-> value # Nil]

GetMetadataString(h, ctx, key) ==
    LET value == Value(h, ctx, StringKey(key))
    IN IF value[1] = "string" THEN [val |-> value[2], ok |-> TRUE]
       ELSE [val |-> "", ok |-> FALSE]

GetMetadataBool(h, ctx, key) ==
    LET value == Value(h, ctx, StringKey(key))
    IN IF value[1] = "bool" THEN [val |-> value[2], ok |-> TRUE]
       ELSE [val |-> FALSE, ok |-> FALSE]

SetUserID(h, ctx, userID) == WithValue(h, ctx, userKey, StrVal(userID))

GetUserID(h, ctx) ==
    LET v == Value(h, ctx, userKey)
    IN IF v[1] = "string" THEN [val |-> v[2], ok |-> TRUE]
       ELSE [val |-> "", ok |-> FALSE]

SetRequestID(h, ctx, requestID) == WithValue(h, ctx, requestKey, StrVal(requestID))

\* ctx.Value(requestKey).(string): the comma-ok type assertion.
GetRequestID(h, ctx) ==
    LET v == Value(h, ctx, requestKey)
    IN IF v[1] = "string" THEN [val |-> v[2], ok |-> TRUE]
       ELSE [val |-> "", ok |-> FALSE]

GetChainName(h, ctx) ==
    LET v == Value(h, ctx, ChainNameKey)
    IN IF v[1] = "string" THEN [val |-> v[2], ok |-> TRUE]
       ELSE [val |-> "", ok |-> FALSE]

-----------------------------------------------------------------------------
(* Stages (MiddlewareFunc values).                                         *)
(*                                                                         *)
(* A custom stage stands for a caller-supplied MiddlewareFunc: it tags the *)
(* context under its own key with the input it received, wraps the input  *)
(* into its output, and then succeeds, returns an error (together with a   *)
(* non-nil output and the extended context) or panics.                     *)

Custom(tag, outcome) == [kind |-> "custom", tag |-> tag, outcome |-> outcome]
RecoveryStage == [kind |-> "Recovery", tag |-> "", outcome |-> "ok"]

\* What a stage call yields: the three values it returns (or its panic),
\* the memory it leaves, and the outside effects it had on the way (calls
\* of caller-supplied functions), in order.
StageResult(h, ctx, out, err, panic) ==
    [heap |-> h, ctx |-> ctx, out |-> out, err |-> err, panic |-> panic,
     effects |-> <<>>]

Did(res, what) == [res EXCEPT !.effects = <<what>> \o @]

CustomCall(st, h, ctx, input) ==
    LET w == AddMetadata(h, ctx, st.tag, input)
        o == <<"by", st.tag, input>>
        res == CASE st.outcome = "ok" -> StageResult(w.heap, w.ctx, o, NoErr, Nil)
                 [] st.outcome = "err" ->
                      StageResult(w.heap, w.ctx, o, <<"err", st.tag>>, Nil)
                 [] st.outcome = "panic" ->
                      StageResult(w.heap, w.ctx, Nil, NoErr, <<"panic", st.tag>>)
    IN Did(res, <<"invoked", st.tag>>)

\* Recovery: the deferred function runs when the stage's own function
\* returns.  Its body is `return ctx, input, nil`, which cannot panic, so
\* recover() yields nil there and nothing is logged; no handler is left on
\* the stack for the stages that Then calls afterwards.
RecoveryCall(st, h, ctx, input) == StageResult(h, ctx, input, NoErr, Nil)

\* A caller-supplied stage that sets the engine's index key itself.
SetsIndex == [kind |-> "SetsIndex", tag |-> "", outcome |-> "ok"]

SetsIndexCall(st, h, ctx, input) ==
    LET w == WithValue(h, ctx, MiddlewareIndexKey, IntVal(9))
    IN StageResult(w.heap, w.ctx, input, NoErr, Nil)

\* cmd/main.go businessLogic: fails unless the input is a Payload.
BusinessLogic == [kind |-> "businessLogic", tag |-> "", outcome |-> "ok"]
Payload(user) == <<"Payload", user>>

BusinessLogicCall(st, h, ctx, input) ==
    Did(IF input[1] # "Payload"
        THEN StageResult(h, ctx, Nil, <<"err", "payload invalido">>, Nil)
        ELSE StageResult(h, ctx, <<"map", input[2]>>, NoErr, Nil),
        <<"invoked", "businessLogic">>)

\* RequestIDWithGenerator(generator).  The generator is a caller-supplied
\* function; each call of it is an effect.
RequestIDStage == [kind |-> "RequestID", tag |-> "", outcome |-> "ok"]
GeneratedID == "gen"

\* RequestIDCall with the test the other way round: an id is generated
\* when none is present.
RequestIDCallWhenAbsent(st, h, ctx, input) ==
    IF GetRequestID(h, ctx).ok
    THEN StageResult(h, ctx, input, NoErr, Nil)
    ELSE LET w == SetRequestID(h, ctx, GeneratedID)
         IN Did(StageResult(w.heap, w.ctx, input, NoErr, Nil), <<"generator">>)

\* RequestIDCall that keeps the id it finds: the generator is not called.
RequestIDCallKeepsExisting(st, h, ctx, input) == StageResult(h, ctx, input, NoErr, Nil)

\* Lines 38-48.
RequestIDCall(st, h, ctx, input) ==
    IF ~GetRequestID(h, ctx).ok
    THEN StageResult(h, ctx, input, NoErr, Nil)
    ELSE LET w == SetRequestID(h, ctx, GeneratedID)
         IN Did(StageResult(w.heap, w.ctx, input, NoErr, Nil), <<"generator">>)

\* Timeout(duration).  duration.String() of a whole number of seconds.
TimeoutStage(d) == [kind |-> "Timeout", tag |-> "", outcome |-> "ok", duration |-> d]
DurationString(d) == ToString(d) \o "s"

\* Lines 59-67.  The deferred cancel() runs when the stage's function
\* returns, after the return values have been set.
TimeoutCall(st, h, ctx, input) ==
    LET t == WithTimeout(h, ctx, clock + st.duration)
        w == AddMetadata(t.heap, t.ctx, "timeout", StrVal(DurationString(st.duration)))
    IN StageResult(Cancel(w.heap, t.ctx), w.ctx, input, NoErr, Nil)

\* Validation(validator), with the validator of the doc comment: input
\* must not be nil.
ValidationStage(v) == [kind |-> "Validation", tag |-> "", outcome |-> "ok", validator |-> v]

ValidatorErr(v, input) ==
    CASE v = "notNil" -> IF input = Nil THEN <<"err", "input cannot be nil">> ELSE NoErr

\* fmt.Errorf("validation failed: %w", err)
ValidationFailed(err) == <<"validation failed: %w", err>>

\* ValidationCall that tags the context before it validates.
ValidationCallTagsFirst(st, h, ctx, input) ==
    LET err == ValidatorErr(st.validator, input)
        w == AddMetadata(h, ctx, "validated", BoolVal(TRUE))
    IN IF err # NoErr
       THEN Did(StageResult(w.heap, w.ctx, Nil, ValidationFailed(err), Nil),
                <<"validator", input>>)
       ELSE Did(StageResult(w.heap, w.ctx, input, NoErr, Nil), <<"validator", input>>)

\* Lines 128-137.
ValidationCall(st, h, ctx, input) ==
    LET err == ValidatorErr(st.validator, input)
    IN IF err # NoErr
       THEN Did(StageResult(h, ctx, Nil, ValidationFailed(err), Nil),
                <<"validator", input>>)
       ELSE LET w == AddMetadata(h, ctx, "validated", BoolVal(TRUE))
            IN Did(StageResult(w.heap, w.ctx, input, NoErr, Nil), <<"validator", input>>)

\* Observability(logger): the closure of ObservabilityWithConfig under the
\* default configuration.  The span and the log line are effects.
ObservabilityStage == [kind |-> "Observability", tag |-> "", outcome |-> "ok"]

\* getTypeName: "nil" for a nil input, else the name of its dynamic type.
getTypeName(input) == IF input = Nil THEN "nil" ELSE input[1]

\* ObservabilityCall that takes reflect.TypeOf(input).String() without
\* getTypeName's nil check: a nil input panics.
ObservabilityCallNoNilCheck(st, h, ctx, input) ==
    LET startTime == <<"time", clock>>
        w1 == WithValue(h, ctx, activeSpanKey, <<"span", "middleware.request">>)
        w2 == WithValue(w1.heap, w1.ctx, StartTimeKey, startTime)
        w3 == AddMetadata(w2.heap, w2.ctx, "observed", BoolVal(TRUE))
        w4 == AddMetadata(w3.heap, w3.ctx, "start_time", startTime)
    IN IF input = Nil
       THEN StageResult(w2.heap, w2.ctx, Nil, NoErr, <<"panic", "nil pointer dereference">>)
       ELSE Did(StageResult(w4.heap, w4.ctx, input, NoErr, Nil),
                <<"log", "Request started", GetRequestID(w2.heap, w2.ctx).val,
                  GetChainName(w2.heap, w2.ctx).val, input[1]>>)

\* Lines 94-146.
ObservabilityCall(st, h, ctx, input) ==
    LET startTime == <<"time", clock>>
        w1 == WithValue(h, ctx, activeSpanKey, <<"span", "middleware.request">>)
        w2 == WithValue(w1.heap, w1.ctx, StartTimeKey, startTime)
        requestID == GetRequestID(w2.heap, w2.ctx).val
        chainName == GetChainName(w2.heap, w2.ctx).val
        w3 == AddMetadata(w2.heap, w2.ctx, "observed", BoolVal(TRUE))
        w4 == AddMetadata(w3.heap, w3.ctx, "start_time", startTime)
    IN Did(StageResult(w4.heap, w4.ctx, input, NoErr, Nil),
           <<"log", "Request started", requestID, chainName, getTypeName(input)>>)

\* Conditional(condition, middleware).  A condition is named; CondHolds
\* evaluates it.
ConditionalStage(cond, mw) ==
    [kind |-> "Conditional", tag |-> "", outcome |-> "ok", cond |-> cond, inner |-> mw]

CondHolds(cond, h, ctx, input) ==
    CASE cond = "inputNotNil" -> input # Nil
      [] cond = "hasRequestID" -> GetRequestID(h, ctx).ok

RECURSIVE StageCall(_, _, _, _)

\* ConditionalCall that runs the wrapped stage whatever the condition says.
ConditionalCallAlways(st, h, ctx, input) == StageCall(st.inner, h, ctx, input)

\* ConditionalCall that tags the context and reports success whatever the
\* wrapped stage returned as its error.
ConditionalCallHidesError(st, h, ctx, input) ==
    IF ~CondHolds(st.cond, h, ctx, input)
    THEN LET w == AddMetadata(h, ctx, "conditional_skipped", BoolVal(TRUE))
         IN StageResult(w.heap, w.ctx, input, NoErr, Nil)
    ELSE [StageCall(st.inner, h, ctx, input) EXCEPT !.err = NoErr]

\* Lines 200-209.
ConditionalCall(st, h, ctx, input) ==
    IF ~CondHolds(st.cond, h, ctx, input)
    THEN LET w == AddMetadata(h, ctx, "conditional_skipped", BoolVal(TRUE))
         IN StageResult(w.heap, w.ctx, input, NoErr, Nil)
    ELSE StageCall(st.inner, h, ctx, input)

StageCall(st, h, ctx, input) ==
    CASE st.kind = "custom" -> CustomCall(st, h, ctx, input)
      [] st.kind = "Recovery" -> RecoveryCall(st, h, ctx, input)
      [] st.kind = "SetsIndex" -> SetsIndexCall(st, h, ctx, input)
      [] st.kind = "businessLogic" -> BusinessLogicCall(st, h, ctx, input)
      [] st.kind = "RequestID" -> RequestIDCall(st, h, ctx, input)
      [] st.kind = "Timeout" -> TimeoutCall(st, h, ctx, input)
      [] st.kind = "Validation" -> ValidationCall(st, h, ctx, input)
      [] st.kind = "Observability" -> ObservabilityCall(st, h, ctx, input)
      [] st.kind = "Conditional" -> ConditionalCall(st, h, ctx, input)

-----------------------------------------------------------------------------
(* Chain construction and extension.  Each operator takes the heap of     *)
(* arrays and the heap of chains and returns both, extended, with the id  *)
(* of the chain it returns.  A variadic argument is the id of the array   *)
(* behind the slice that the caller passed.                               *)

ChainObj(as, cs, chain) == [arrays |-> as, chains |-> cs, chain |-> chain]

\* NewNamedChain that keeps the caller's slice instead of copying it.
NewNamedChainNoCopy(as, cs, name, middlewares) ==
    ChainObj(as, Append(cs, [middlewares |-> middlewares, name |-> name]), Len(cs) + 1)

\* append([]MiddlewareFunc{}, middlewares...): a fresh array holding a copy.
NewNamedChain(as, cs, name, middlewares) ==
    LET as1 == Append(as, as[middlewares])
    IN ChainObj(as1, Append(cs, [middlewares |-> Len(as1), name |-> name]), Len(cs) + 1)

NewChain(as, cs, middlewares) == NewNamedChain(as, cs, "", middlewares)

\* make + copy + copy: a fresh array, the receiver's stages then the added.
ChainAppend(as, cs, c, middlewares) ==
    LET newMiddlewares == as[cs[c].middlewares] \o as[middlewares]
        as1 == Append(as, newMiddlewares)
    IN ChainObj(as1, Append(cs, [middlewares |-> Len(as1), name |-> cs[c].name]), Len(cs) + 1)

\* ChainPrepend that copies the receiver's stages first.
ChainPrependAtEnd(as, cs, c, middlewares) ==
    LET newMiddlewares == as[cs[c].middlewares] \o as[middlewares]
        as1 == Append(as, newMiddlewares)
    IN ChainObj(as1, Append(cs, [middlewares |-> Len(as1), name |-> cs[c].name]), Len(cs) + 1)

ChainPrepend(as, cs, c, middlewares) ==
    LET newMiddlewares == as[middlewares] \o as[cs[c].middlewares]
        as1 == Append(as, newMiddlewares)
    IN ChainObj(as1, Append(cs, [middlewares |-> Len(as1), name |-> cs[c].name]), Len(cs) + 1)

ChainClone(as, cs, c) ==
    LET as1 == Append(as, as[cs[c].middlewares])
    IN ChainObj(as1, Append(cs, [middlewares |-> Len(as1), name |-> cs[c].name]), Len(cs) + 1)

ChainLen(as, cs, c) == Len(as[cs[c].middlewares])
ChainName(cs, c) == cs[c].name

-----------------------------------------------------------------------------
(* Chain.Then, one invocation per run r.  The engine is sequential within *)
(* a run; separate runs interleave between stage calls.                   *)

Runs == DOMAIN runs

\* The context heap as goroutine r allocates in it.
Heap(r) == [mem |-> ctxs, arena |-> r]

IdleRun ==
    [pc |-> "idle", chain |-> 0, ctx0 |-> Background, input0 |-> Nil,
     mws |-> 0, i |-> 0, currentCtx |-> Background, output |-> Nil,
     ret |-> [ctx |-> Background, out |-> Nil, err |-> NoErr],
     panicVal |-> Nil, calls |-> <<>>, opsBefore |-> 0]

\* fmt.Errorf("middleware %d failed: %w", i, err)
WrapErr(i, err) == <<"middleware %d failed: %w", i, err>>

Returned(run, ctx, out, err) ==
    [run EXCEPT !.pc = "returned", !.ret = [ctx |-> ctx, out |-> out, err |-> err]]

\* ThenEnter with the chain-name entry made before the empty check.
ThenEnterNamesFirst(h, as, cs, c, ctx, input) ==
    LET run0 == [IdleRun EXCEPT !.chain = c, !.ctx0 = ctx, !.input0 = input]
        w == IF cs[c].name # ""
             THEN WithValue(h, ctx, ChainNameKey, StrVal(cs[c].name))
             ELSE [heap |-> h, ctx |-> ctx]
    IN IF Len(as[cs[c].middlewares]) = 0
       THEN [heap |-> w.heap, run |-> Returned(run0, w.ctx, input, NoErr)]
       ELSE [heap |-> w.heap,
             run |-> [run0 EXCEPT !.pc = "loop", !.mws = cs[c].middlewares,
                                  !.i = 0, !.currentCtx = w.ctx, !.output = input]]

\* ThenEnter without the test c.name != "": a name entry is always made.
ThenEnterNamesAlways(h, as, cs, c, ctx, input) ==
    LET run0 == [IdleRun EXCEPT !.chain = c, !.ctx0 = ctx, !.input0 = input]
    IN IF Len(as[cs[c].middlewares]) = 0
       THEN [heap |-> h, run |-> Returned(run0, ctx, input, NoErr)]
       ELSE LET w == WithValue(h, ctx, ChainNameKey, StrVal(cs[c].name))
            IN [heap |-> w.heap,
                run |-> [run0 EXCEPT !.pc = "loop", !.mws = cs[c].middlewares,
                                     !.i = 0, !.currentCtx = w.ctx, !.output = input]]

\* Lines 133-144: the empty check, the locals, the chain-name entry.
ThenEnter(h, as, cs, c, ctx, input) ==
    LET run0 == [IdleRun EXCEPT !.chain = c, !.ctx0 = ctx, !.input0 = input]
    IN IF Len(as[cs[c].middlewares]) = 0
       THEN [heap |-> h, run |-> Returned(run0, ctx, input, NoErr)]
       ELSE LET w == IF cs[c].name # ""
                     THEN WithValue(h, ctx, ChainNameKey, StrVal(cs[c].name))
                     ELSE [heap |-> h, ctx |-> ctx]
            IN [heap |-> w.heap,
                run |-> [run0 EXCEPT !.pc = "loop", !.mws = cs[c].middlewares,
                                     !.i = 0, !.currentCtx = w.ctx, !.output = input]]

\* StageCtx that extends the context Then was called with.
StageCtxFromCaller(h, run) == WithValue(h, run.ctx0, MiddlewareIndexKey, IntVal(run.i))

\* StageCtx with the loop index kept in one variable that all runs share.
StageCtxSharedIndex(h, run) ==
    WithValue(h, run.currentCtx, MiddlewareIndexKey, IntVal(runs[1].i))

\* StageCtx that leaves an index entry alone when the context has one.
StageCtxKeepsIndex(h, run) ==
    IF Value(h, run.currentCtx, MiddlewareIndexKey) # Nil
    THEN [heap |-> h, ctx |-> run.currentCtx]
    ELSE WithValue(h, run.currentCtx, MiddlewareIndexKey, IntVal(run.i))

\* Line 148: the context handed to stage i.
StageCtx(h, run) == WithValue(h, run.currentCtx, MiddlewareIndexKey, IntVal(run.i))

\* The observer's record of one stage call.
CallRecord(h, run, mw, ctx, res) ==
    [idx |-> run.i, mw |-> mw, ctx |-> ctx, input |-> run.output,
     rctx |-> res.ctx, rout |-> res.out, rerr |-> res.err, panic |-> res.panic,
     effects |-> res.effects, at |-> clock, cerr |-> CtxErr(h, ctx, clock)]

\* OnStageReturn that notes the error and goes on to the next stage.
OnStageReturnKeepsGoing(run, res) ==
    [run EXCEPT !.currentCtx = res.ctx, !.output = res.out, !.i = run.i + 1]

\* OnStageReturn that feeds every stage the value the previous one was fed.
OnStageReturnDropsOutput(run, res) ==
    IF res.err # NoErr
    THEN Returned(run, res.ctx, Nil, WrapErr(run.i, res.err))
    ELSE [run EXCEPT !.currentCtx = res.ctx, !.i = run.i + 1]

\* OnStageReturn that, on failure, returns the context the stage was given.
OnStageReturnOldCtx(run, res) ==
    IF res.err # NoErr
    THEN Returned(run, run.currentCtx, Nil, WrapErr(run.i, res.err))
    ELSE [run EXCEPT !.currentCtx = res.ctx, !.output = res.out, !.i = run.i + 1]

\* Lines 150-155: what the loop does with the three values a stage returned.
OnStageReturn(run, res) ==
    IF res.err # NoErr
    THEN Returned(run, res.ctx, Nil, WrapErr(run.i, res.err))
    ELSE [run EXCEPT !.currentCtx = res.ctx, !.output = res.out, !.i = run.i + 1]

\* A panic in the stage unwinds through Then, which defers nothing.
OnStagePanic(run, res) == [run EXCEPT !.pc = "panicked", !.panicVal = res.panic]

ThenCall(r, c, ctx, input) ==
    /\ runs[r].pc = "idle"
    /\ LET e == ThenEnter(Heap(r), arrays, chains, c, ctx, input)
       IN /\ ctxs' = e.heap.mem
          /\ runs' = [runs EXCEPT ![r] = [e.run EXCEPT !.opsBefore = Len(ops)]]
    /\ UNCHANGED <<metaLog, chainVars, rateVars>>

ThenStage(r) ==
    /\ runs[r].pc = "loop"
    /\ runs[r].i < Len(arrays[runs[r].mws])
    /\ LET run == runs[r]
           mw == arrays[run.mws][run.i + 1]
           w == StageCtx(Heap(r), run)
           res == StageCall(mw, w.heap, w.ctx, run.output)
           seen == [run EXCEPT !.calls = Append(@, CallRecord(w.heap, run, mw, w.ctx, res))]
       IN /\ ctxs' = res.heap.mem
          /\ runs' = [runs EXCEPT ![r] = IF res.panic # Nil
                                         THEN OnStagePanic(seen, res)
                                         ELSE OnStageReturn(seen, res)]
    /\ UNCHANGED <<metaLog, chainVars, rateVars>>

\* Line 157: the loop is over.
ThenReturn(r) ==
    /\ runs[r].pc = "loop"
    /\ runs[r].i = Len(arrays[runs[r].mws])
    /\ runs' = [runs EXCEPT ![r] = Returned(@, @.currentCtx, @.output, NoErr)]
    /\ UNCHANGED <<metaLog, ctxs, chainVars, rateVars>>

\* Then executed alone, from entry to return, by goroutine r on a memory
\* that holds nothing but the caller's contexts: the same steps as
\* ThenCall, ThenStage and ThenReturn, taken back to back.
RECURSIVE SoloLoop(_, _, _)
SoloLoop(h, as, run) ==
    IF run.pc # "loop" THEN [heap |-> h, run |-> run]
    ELSE IF run.i = Len(as[run.mws])
    THEN [heap |-> h, run |-> Returned(run, run.currentCtx, run.output, NoErr)]
    ELSE LET mw == as[run.mws][run.i + 1]
             w == StageCtx(h, run)
             res == StageCall(mw, w.heap, w.ctx, run.output)
             seen == [run EXCEPT !.calls = Append(@, CallRecord(w.heap, run, mw, w.ctx, res))]
         IN SoloLoop(res.heap, as, IF res.panic # Nil THEN OnStagePanic(seen, res)
                                   ELSE OnStageReturn(seen, res))

SoloThen(mem0, r, as, cs, c, ctx, input) ==
    LET e == ThenEnter([mem |-> mem0, arena |-> r], as, cs, c, ctx, input)
    IN SoloLoop(e.heap, as, e.run)

\* What a context holds: the key/value entries from ctx down to the root.
RECURSIVE Contents(_, _)
Contents(h, ctx) ==
    IF ctx = Background THEN <<>>
    ELSE <<<<Node(h, ctx).key, Node(h, ctx).val>>>> \o Contents(h, Node(h, ctx).parent)

-----------------------------------------------------------------------------
(* The RateLimit stage instance at rest (it takes no part in Spec).       *)

RateIdle ==
    /\ clock = 0
    /\ bucket = [tokens |-> 0, capacity |-> 0, refillRate |-> 0, lastRefill |-> 0]
    /\ procs = <<>>
    /\ hist = <<>>
    /\ serial = TRUE
    /\ metaLog = <<>>

-----------------------------------------------------------------------------
(* Spec: runs of Then over one pipeline built by NewChain/NewNamedChain.  *)

StageSet ==
    {Custom("a", "ok"), Custom("b", "ok"), Custom("a", "err"),
     Custom("p", "panic"), RecoveryStage}

RECURSIVE SeqsUpTo(_, _)
SeqsUpTo(S, n) ==
    IF n = 0 THEN {<<>>}
    ELSE LET shorter == SeqsUpTo(S, n - 1)
         IN shorter \cup {Append(q, x) : q \in shorter, x \in S}

Pipelines == SeqsUpTo(StageSet, MaxStages)
Names == {"", "svc"}
Inputs == {Nil, StrVal("x")}

\* The contexts the caller starts from: Background, and a context that
\* already carries a request id.
InitCtxs ==
    <<[parent |-> Background, key |-> requestKey, val |-> StrVal("rid0")],
      [parent |-> Background, key |-> MiddlewareIndexKey, val |-> IntVal(7)]>>
CallerCtxs == {Background, <<0, 1>>}
InitMem(R) == [a \in {0} \cup R |-> IF a = 0 THEN InitCtxs ELSE <<>>]

Init ==
    /\ \E p \in Pipelines, n \in Names :
         LET made == IF n = "" THEN NewChain(<<p>>, <<>>, 1)
                     ELSE NewNamedChain(<<p>>, <<>>, n, 1)
         IN /\ arrays = made.arrays
            /\ chains = made.chains
            /\ born = <<[stages |-> p, name |-> n]>>
    /\ callerSlices = {1}
    /\ ops = <<>>
    /\ ctxs = InitMem({1})
    /\ runs = [r \in {1} |-> IdleRun]
    /\ RateIdle

Next ==
    \/ \E r \in Runs, ctx \in CallerCtxs, input \in Inputs : ThenCall(r, 1, ctx, input)
    \/ \E r \in Runs : ThenStage(r)
    \/ \E r \in Runs : ThenReturn(r)

Spec == Init /\ [][Next]_vars

-----------------------------------------------------------------------------
(* SpecRuns: several goroutines run Then on the same pipeline at once.    *)

RunStageSet == {Custom("a", "ok"), Custom("b", "err")}
RunPipelines == SeqsUpTo(RunStageSet, MaxRunStages)

InitRuns ==
    /\ \E p \in RunPipelines, n \in Names :
         LET made == IF n = "" THEN NewChain(<<p>>, <<>>, 1)
                     ELSE NewNamedChain(<<p>>, <<>>, n, 1)
         IN /\ arrays = made.arrays
            /\ chains = made.chains
            /\ born = <<[stages |-> p, name |-> n]>>
    /\ callerSlices = {1}
    /\ ops = <<>>
    /\ ctxs = InitMem(1..MaxRuns)
    /\ runs = [r \in 1..MaxRuns |-> IdleRun]
    /\ RateIdle

\* Run r is given the input IntVal(r): every run carries its own request.
NextRuns ==
    \/ \E r \in Runs, ctx \in CallerCtxs : ThenCall(r, 1, ctx, IntVal(r))
    \/ \E r \in Runs : ThenStage(r)
    \/ \E r \in Runs : ThenReturn(r)

SpecRuns == InitRuns /\ [][NextRuns]_vars

-----------------------------------------------------------------------------
(* SpecBuiltin: one run of Then over a pipeline of built-in stages, the    *)
(* business stage of cmd/main.go and a stage that writes the index key.    *)

BuiltinStageSet ==
    {RequestIDStage, TimeoutStage(2), ValidationStage("notNil"), ObservabilityStage,
     ConditionalStage("inputNotNil", Custom("s", "ok")),
     ConditionalStage("hasRequestID", Custom("t", "err")), BusinessLogic, SetsIndex}
BuiltinPipelines == SeqsUpTo(BuiltinStageSet, MaxBuiltinStages)
BuiltinInputs == {Nil, Payload("u1")}

\* Background, a context with a request id, a context on which the index
\* key is already set.
BuiltinCallerCtxs == {Background, <<0, 1>>, <<0, 2>>}

InitBuiltin ==
    /\ \E p \in BuiltinPipelines, n \in Names :
         LET made == IF n = "" THEN NewChain(<<p>>, <<>>, 1)
                     ELSE NewNamedChain(<<p>>, <<>>, n, 1)
         IN /\ arrays = made.arrays
            /\ chains = made.chains
            /\ born = <<[stages |-> p, name |-> n]>>
    /\ callerSlices = {1}
    /\ ops = <<>>
    /\ ctxs = InitMem({1})
    /\ runs = [r \in {1} |-> IdleRun]
    /\ RateIdle

NextBuiltin ==
    \/ \E r \in Runs, ctx \in BuiltinCallerCtxs, input \in BuiltinInputs :
         ThenCall(r, 1, ctx, input)
    \/ \E r \in Runs : ThenStage(r)
    \/ \E r \in Runs : ThenReturn(r)

SpecBuiltin == InitBuiltin /\ [][NextBuiltin]_vars

-----------------------------------------------------------------------------
(* SpecMeta: the metadata store on its own.  A goroutine derives contexts  *)
(* from the caller's and from those it derived before, with AddMetadata,   *)
(* with the typed setters and with the context.WithValue calls that the   *)
(* engine and the Observability stage make under their own keys.           *)

\* The string keys are chosen to spell like the typed keys.
MetaKeys == {"request_id", "k"}
MetaValues == {Nil, StrVal("a"), BoolVal(TRUE)}
TypedEntries ==
    {<<requestKey, StrVal("r1")>>, <<userKey, StrVal("u1")>>,
     <<ChainNameKey, StrVal("svc")>>, <<MiddlewareIndexKey, IntVal(0)>>,
     <<StartTimeKey, <<"time", 0>>>>}
AllKeys == {StringKey(k) : k \in MetaKeys} \cup {e[1] : e \in TypedEntries}

\* The contexts in existence.
MetaCtxs == {Background} \cup {<<a, n>> : a \in DOMAIN ctxs, n \in 1..MaxMetaOps + 2}
LiveCtxs == {c \in MetaCtxs : c = Background \/ c[2] <= Len(ctxs[c[1]])}

\* What a context resolves every key to.
View(h, ctx) == [k \in AllKeys |-> Value(h, ctx, k)]

MetaLogged(op, ctx, key, val, w) ==
    metaLog' = Append(metaLog, [op |-> op, ctx |-> ctx, key |-> key, val |-> val,
                                res |-> w.ctx, before |-> View([mem |-> ctxs, arena |-> 0], ctx)])

DoAddMetadata(ctx, key, value) ==
    /\ Len(metaLog) < MaxMetaOps
    /\ LET w == AddMetadata(Heap(1), ctx, key, value)
       IN /\ ctxs' = w.heap.mem
          /\ MetaLogged("AddMetadata", ctx, StringKey(key), value, w)
    /\ UNCHANGED <<runs, chainVars, clock, bucket, procs, hist, serial>>

\* SetRequestID, SetUserID and the WithValue calls of chain.go:143, 148 and
\* observability.go:105.
DoTypedSet(ctx, key, value) ==
    /\ Len(metaLog) < MaxMetaOps
    /\ LET w == CASE key = requestKey -> SetRequestID(Heap(1), ctx, value[2])
                   [] key = userKey -> SetUserID(Heap(1), ctx, value[2])
                   [] OTHER -> WithValue(Heap(1), ctx, key, value)
       IN /\ ctxs' = w.heap.mem
          /\ MetaLogged("typed", ctx, key, value, w)
    /\ UNCHANGED <<runs, chainVars, clock, bucket, procs, hist, serial>>

InitMeta ==
    /\ ctxs = InitMem({1})
    /\ runs = [r \in {1} |-> IdleRun]
    /\ arrays = <<>>
    /\ chains = <<>>
    /\ callerSlices = {}
    /\ born = <<>>
    /\ ops = <<>>
    /\ RateIdle

NextMeta ==
    \/ \E ctx \in LiveCtxs, k \in MetaKeys, v \in MetaValues : DoAddMetadata(ctx, k, v)
    \/ \E ctx \in LiveCtxs, e \in TypedEntries : DoTypedSet(ctx, e[1], e[2])

SpecMeta == InitMeta /\ [][NextMeta]_vars

-----------------------------------------------------------------------------
(* SpecChain: the caller builds pipelines from a slice it keeps and goes  *)
(* on writing to, derives others with Append, Prepend and Clone, and runs *)
(* any of them with Then.                                                 *)

\* The slices the caller may start with, and the stage it later writes into them.
CallerSlicesInit ==
    {<<>>, <<Custom("a", "ok")>>, <<Custom("b", "err")>>}
Overwriting == Custom("z", "ok")
ChainIds == 1..Len(chains)
StagesOf(as, cs, c) == as[cs[c].middlewares]

Built(made, stages, name) ==
    /\ arrays' = made.arrays
    /\ chains' = made.chains
    /\ born' = Append(born, [stages |-> stages, name |-> name])

Logged(op, c, s, made) ==
    ops' = Append(ops, [op |-> op, recv |-> c, res |-> made.chain,
                        recvStages |-> StagesOf(arrays, chains, c),
                        recvLen |-> ChainLen(arrays, chains, c),
                        ext |-> IF s = 0 THEN <<>> ELSE arrays[s]])

DoNewChain(s) ==
    /\ Len(chains) < MaxChains
    /\ Built(NewChain(arrays, chains, s), arrays[s], "")
    /\ UNCHANGED <<metaLog, ctxs, runs, callerSlices, ops, rateVars>>

DoNewNamedChain(name, s) ==
    /\ Len(chains) < MaxChains
    /\ Built(NewNamedChain(arrays, chains, name, s), arrays[s], name)
    /\ UNCHANGED <<metaLog, ctxs, runs, callerSlices, ops, rateVars>>

DoAppend(c, s) ==
    /\ Len(chains) < MaxChains
    /\ LET made == ChainAppend(arrays, chains, c, s)
       IN /\ Built(made, StagesOf(made.arrays, made.chains, made.chain),
                   ChainName(made.chains, made.chain))
          /\ Logged("Append", c, s, made)
    /\ UNCHANGED <<metaLog, ctxs, runs, callerSlices, rateVars>>

DoPrepend(c, s) ==
    /\ Len(chains) < MaxChains
    /\ LET made == ChainPrepend(arrays, chains, c, s)
       IN /\ Built(made, StagesOf(made.arrays, made.chains, made.chain),
                   ChainName(made.chains, made.chain))
          /\ Logged("Prepend", c, s, made)
    /\ UNCHANGED <<metaLog, ctxs, runs, callerSlices, rateVars>>

DoClone(c) ==
    /\ Len(chains) < MaxChains
    /\ LET made == ChainClone(arrays, chains, c)
       IN /\ Built(made, StagesOf(made.arrays, made.chains, made.chain),
                   ChainName(made.chains, made.chain))
          /\ Logged("Clone", c, 0, made)
    /\ UNCHANGED <<metaLog, ctxs, runs, callerSlices, rateVars>>

\* The caller assigns to an element of a slice it holds.
CallerStore(s, k, st) ==
    /\ k \in 1..Len(arrays[s])
    /\ arrays[s][k] # st
    /\ arrays' = [arrays EXCEPT ![s][k] = st]
    /\ UNCHANGED <<metaLog, ctxs, runs, chains, callerSlices, born, ops, rateVars>>

InitChain ==
    /\ \E p \in CallerSlicesInit : arrays = <<p>>
    /\ chains = <<>>
    /\ callerSlices = {1}
    /\ born = <<>>
    /\ ops = <<>>
    /\ ctxs = InitMem({1})
    /\ runs = [r \in {1} |-> IdleRun]
    /\ RateIdle

NextChain ==
    \/ \E s \in callerSlices : DoNewChain(s)
    \/ \E s \in callerSlices : DoNewNamedChain("svc", s)
    \/ \E c \in ChainIds, s \in callerSlices : DoAppend(c, s)
    \/ \E c \in ChainIds, s \in callerSlices : DoPrepend(c, s)
    \/ \E c \in ChainIds : DoClone(c)
    \/ \E s \in callerSlices : \E k \in 1..Len(arrays[s]) : CallerStore(s, k, Overwriting)
    \/ \E r \in Runs, c \in ChainIds : ThenCall(r, c, Background, StrVal("x"))
    \/ \E r \in Runs : ThenStage(r)
    \/ \E r \in Runs : ThenReturn(r)

SpecChain == InitChain /\ [][NextChain]_vars

-----------------------------------------------------------------------------
(* RateLimit: one stage instance, that is one tokenBucket shared by all   *)
(* its invocations.  The closure takes no lock, so each read and each     *)
(* write of a bucket field is a step of its own and the steps of          *)
(* concurrent invocations interleave.                                     *)

Procs == DOMAIN procs

IdleProc ==
    [pc |-> "idle", ctx |-> Background, now |-> 0, tmp |-> 0, refilled |-> FALSE,
     before |-> [tokens |-> 0, capacity |-> 0, refillRate |-> 0, lastRefill |-> 0],
     ret |-> [ctx |-> Background, out |-> Nil, err |-> NoErr]]

\* The context invocation p is made with: a context with a request id for
\* the even ones, the root for the odd ones.
ProcCtx(p) == IF p % 2 = 0 THEN <<0, 1>> ELSE Background

InFlight(p) == procs[p].pc \notin {"idle", "done"}

\* Lines 156-161: the bucket a new stage instance captures.
NewBucket(requestsPerDuration, duration, now) ==
    [tokens |-> requestsPerDuration, capacity |-> requestsPerDuration,
     refillRate |-> duration, lastRefill |-> now]

\* RefillDue with > in place of >=.
RefillDueStrict(b, now) == now - b.lastRefill > b.refillRate

\* Line 167: now.Sub(bucket.lastRefill) >= bucket.refillRate
RefillDue(b, now) == now - b.lastRefill >= b.refillRate

\* Refilled that adds one token per elapsed interval.
RefilledByOne(b) == IF b.tokens < b.capacity THEN b.tokens + 1 ELSE b.capacity

\* Line 168: what bucket.tokens is set to by a refill.
Refilled(b) == b.capacity

\* NoTokens that lets the count go one below zero.
NoTokensBelowZero(b) == b.tokens < 0

\* Line 173: bucket.tokens <= 0
NoTokens(b) == b.tokens <= 0

RateLimitExceeded == <<"err", "rate limit exceeded">>

\* Line 164: now := time.Now().  When the caller invokes the stage one call
\* at a time, call p starts once the calls before it have returned.
RLNow(p) ==
    /\ procs[p].pc = "idle"
    /\ serial => \A q \in Procs : ~InFlight(q) /\ (q < p => procs[q].pc = "done")
    /\ procs' = [procs EXCEPT ![p].pc = "refillCheck", ![p].now = clock,
                              ![p].ctx = ProcCtx(p), ![p].before = bucket]
    /\ UNCHANGED <<metaLog, ctxs, runs, chainVars, clock, bucket, hist, serial>>

\* Line 167
RLRefillCheck(p) ==
    /\ procs[p].pc = "refillCheck"
    /\ procs' = [procs EXCEPT ![p].pc = IF RefillDue(bucket, procs[p].now)
                                        THEN "refillTokens" ELSE "tokenCheck"]
    /\ UNCHANGED <<metaLog, ctxs, runs, chainVars, clock, bucket, hist, serial>>

\* Line 168: bucket.tokens = bucket.capacity
RLRefillTokens(p) ==
    /\ procs[p].pc = "refillTokens"
    /\ bucket' = [bucket EXCEPT !.tokens = Refilled(bucket)]
    /\ procs' = [procs EXCEPT ![p].pc = "refillTime", ![p].refilled = TRUE]
    /\ hist' = Append(hist, [ev |-> "refill", p |-> p, at |-> procs[p].now,
                             refilled |-> TRUE, remaining |-> Nil,
                             before |-> procs[p].before, after |-> bucket'])
    /\ UNCHANGED <<metaLog, ctxs, runs, chainVars, clock, serial>>

\* Line 169: bucket.lastRefill = now
RLRefillTime(p) ==
    /\ procs[p].pc = "refillTime"
    /\ bucket' = [bucket EXCEPT !.lastRefill = procs[p].now]
    /\ procs' = [procs EXCEPT ![p].pc = "tokenCheck"]
    /\ UNCHANGED <<metaLog, ctxs, runs, chainVars, clock, hist, serial>>

\* Lines 173-175: no token left: return ctx, nil, "rate limit exceeded".
RLTokenCheck(p) ==
    /\ procs[p].pc = "tokenCheck"
    /\ IF NoTokens(bucket)
       THEN /\ procs' = [procs EXCEPT ![p].pc = "done",
                                      ![p].ret = [ctx |-> procs[p].ctx, out |-> Nil,
                                                  err |-> RateLimitExceeded]]
            /\ hist' = Append(hist, [ev |-> "reject", p |-> p, at |-> procs[p].now,
                                     refilled |-> procs[p].refilled, remaining |-> Nil,
                                     before |-> procs[p].before, after |-> bucket])
       ELSE /\ procs' = [procs EXCEPT ![p].pc = "decLoad"]
            /\ hist' = hist
    /\ UNCHANGED <<metaLog, ctxs, runs, chainVars, clock, bucket, serial>>

\* Line 178, bucket.tokens--: the load ...
RLDecLoad(p) ==
    /\ procs[p].pc = "decLoad"
    /\ procs' = [procs EXCEPT ![p].pc = "decStore", ![p].tmp = bucket.tokens]
    /\ UNCHANGED <<metaLog, ctxs, runs, chainVars, clock, bucket, hist, serial>>

\* ... and the store.
RLDecStore(p) ==
    /\ procs[p].pc = "decStore"
    /\ bucket' = [bucket EXCEPT !.tokens = procs[p].tmp - 1]
    /\ procs' = [procs EXCEPT ![p].pc = "meta"]
    /\ UNCHANGED <<metaLog, ctxs, runs, chainVars, clock, hist, serial>>

\* Lines 181-183: the remaining count goes into the context; the input
\* passes through.
RLMeta(p) ==
    /\ procs[p].pc = "meta"
    /\ LET w == AddMetadata(Heap(p), procs[p].ctx, "rate_limit_remaining",
                            IntVal(bucket.tokens))
       IN /\ ctxs' = w.heap.mem
          /\ procs' = [procs EXCEPT ![p].pc = "done",
                                    ![p].ret = [ctx |-> w.ctx, out |-> StrVal("x"),
                                                err |-> NoErr]]
          /\ hist' = Append(hist, [ev |-> "ok", p |-> p, at |-> procs[p].now,
                                   refilled |-> procs[p].refilled,
                                   remaining |-> Value(w.heap, w.ctx,
                                                StringKey("rate_limit_remaining")),
                                   before |-> procs[p].before, after |-> bucket])
    /\ UNCHANGED <<metaLog, runs, chainVars, clock, bucket, serial>>

\* Time passes.
Tick ==
    /\ clock < MaxClock
    /\ clock' = clock + 1
    /\ UNCHANGED <<metaLog, ctxs, runs, chainVars, bucket, procs, hist, serial>>

InitRate(n, oneAtATime) ==
    /\ clock = 0
    /\ \E c \in 1..MaxCapacity, d \in 1..MaxInterval : bucket = NewBucket(c, d, 0)
    /\ procs = [p \in 1..n |-> IdleProc]
    /\ hist = <<>>
    /\ serial = oneAtATime
    /\ metaLog = <<>>
    /\ ctxs = InitMem(1..n)
    /\ runs = [r \in {1} |-> IdleRun]
    /\ arrays = <<>>
    /\ chains = <<>>
    /\ callerSlices = {}
    /\ born = <<>>
    /\ ops = <<>>

NextRate ==
    \/ Tick
    \/ \E p \in Procs : RLNow(p)
    \/ \E p \in Procs : RLRefillCheck(p)
    \/ \E p \in Procs : RLRefillTokens(p)
    \/ \E p \in Procs : RLRefillTime(p)
    \/ \E p \in Procs : RLTokenCheck(p)
    \/ \E p \in Procs : RLDecLoad(p)
    \/ \E p \in Procs : RLDecStore(p)
    \/ \E p \in Procs : RLMeta(p)

\* Concurrent invocations of the one stage instance.
SpecRateLimit == InitRate(MaxConcurrent, FALSE) /\ [][NextRate]_vars

\* The same instance invoked one call at a time.
SpecRateLimitSeq == InitRate(MaxInvocations, TRUE) /\ [][NextRate]_vars

-----------------------------------------------------------------------------
(* Observations on a run *)

Started(run) == run.pc # "idle"
RunStages(run) == arrays[chains[run.chain].middlewares]
Mem == [mem |-> ctxs, arena |-> 0]

\* Position (0-based) of the first stage of pipeline p that reports an
\* error, or Len(p) when none does.
RECURSIVE FirstErr(_, _)
FirstErr(p, k) ==
    IF k >= Len(p) THEN Len(p)
    ELSE IF p[k + 1].kind = "custom" /\ p[k + 1].outcome = "err" THEN k
    ELSE FirstErr(p, k + 1)

NoPanicStage(p) == \A k \in 1..Len(p) : p[k].outcome # "panic"

-----------------------------------------------------------------------------
\* C1: when stage k is the first of a run to return an error, exactly the
\* stages 0..k are invoked, each once and in order, no stage after k is
\* invoked, and the error Then returns names position k.
C1_ShortCircuit ==
    \A r \in Runs :
        LET run == runs[r]
            calls == run.calls
            p == RunStages(run)
        IN Started(run) =>
           /\ \A j \in 1..Len(calls) :
                /\ calls[j].idx = j - 1
                /\ calls[j].rerr # NoErr =>
                     /\ j = Len(calls)
                     /\ run.pc = "returned"
                     /\ run.ret.err[2] = j - 1
                     /\ run.ret.err[3] = calls[j].rerr
           /\ (NoPanicStage(p) /\ FirstErr(p, 0) < Len(p)) =>
                /\ Len(calls) <= FirstErr(p, 0) + 1
                /\ run.pc = "returned" =>
                     /\ Len(calls) = FirstErr(p, 0) + 1
                     /\ run.ret.err # NoErr
                     /\ run.ret.err[2] = FirstErr(p, 0)

\* A run has failed at position 1 of a pipeline of three stages.
C1_Witness ==
    \E r \in Runs :
        /\ runs[r].pc = "returned"
        /\ Len(RunStages(runs[r])) = 3
        /\ Len(runs[r].calls) = 2
        /\ runs[r].calls[2].rerr # NoErr
        /\ runs[r].ret.err[2] = 1

\* C2: without a failure the stages are invoked in pipeline order, each
\* once; stage 0 receives the caller's input, stage i+1 the context and the
\* output that stage i returned; no stage receives a context produced by a
\* later stage; after the last stage Then returns that stage's context and
\* output with a nil error.
C2_OrderAndThreading ==
    \A r \in Runs :
        LET run == runs[r]
            calls == run.calls
            p == RunStages(run)
        IN Started(run) =>
           /\ \A j \in 1..Len(calls) :
                /\ calls[j].idx = j - 1
                /\ j = 1 => /\ calls[j].input = run.input0
                            /\ run.ctx0 \in CtxPath(Mem, calls[j].ctx) \cup {Background}
                /\ j > 1 => /\ calls[j].input = calls[j - 1].rout
                            /\ calls[j - 1].rerr = NoErr
                            /\ calls[j - 1].panic = Nil
                            /\ Node(Mem, calls[j].ctx).parent = calls[j - 1].rctx
                            /\ Node(Mem, calls[j].ctx).key = MiddlewareIndexKey
                /\ \A k \in (j + 1)..Len(calls) :
                     /\ calls[k].ctx \notin CtxPath(Mem, calls[j].ctx)
                     /\ calls[k].rctx \notin CtxPath(Mem, calls[j].ctx)
           /\ (run.pc = "returned" /\ run.ret.err = NoErr /\ Len(p) > 0) =>
                /\ Len(calls) = Len(p)
                /\ run.ret.ctx = calls[Len(p)].rctx
                /\ run.ret.out = calls[Len(p)].rout

\* A run of three stages has completed and its output went through all three.
C2_Witness ==
    \E r \in Runs :
        /\ runs[r].pc = "returned"
        /\ runs[r].ret.err = NoErr
        /\ Len(runs[r].calls) = 3
        /\ runs[r].calls[3].input # runs[r].calls[2].input
        /\ runs[r].ret.out = <<"by", "b", <<"by", "a", runs[r].input0>>>>

\* C3: when a stage fails, Then returns the context that stage returned, a
\* nil output whatever output the stage returned, and one error that wraps
\* the stage's error and names the stage's position.
C3_FailureResult ==
    \A r \in Runs :
        LET run == runs[r]
            last == run.calls[Len(run.calls)]
        IN (run.pc = "returned" /\ run.ret.err # NoErr) =>
           /\ Len(run.calls) > 0
           /\ last.rerr # NoErr
           /\ run.ret.ctx = last.rctx
           /\ run.ret.out = Nil
           /\ run.ret.err = WrapErr(last.idx, last.rerr)

\* A run has failed at a stage that returned a new context and a non-nil output.
C3_Witness ==
    \E r \in Runs :
        LET run == runs[r]
            last == run.calls[Len(run.calls)]
        IN /\ run.pc = "returned"
           /\ run.ret.err # NoErr
           /\ last.idx > 0
           /\ last.rctx # last.ctx
           /\ last.rout # Nil

\* C4: Then on a pipeline without stages, named or not, returns the
\* caller's context itself with nothing added, the input and a nil error.
C4_EmptyPipeline ==
    \A r \in Runs :
        LET run == runs[r]
        IN (Started(run) /\ Len(RunStages(run)) = 0) =>
           /\ run.pc = "returned"
           /\ run.ret.ctx = run.ctx0
           /\ run.ret.out = run.input0
           /\ run.ret.err = NoErr
           /\ run.calls = <<>>
           /\ ctxs[r] = <<>>

\* A named pipeline without stages has run on a non-root context.
C4_Witness ==
    \E r \in Runs :
        /\ runs[r].pc = "returned"
        /\ Len(RunStages(runs[r])) = 0
        /\ chains[runs[r].chain].name # ""
        /\ runs[r].ctx0 # Background
        /\ runs[r].input0 # Nil

\* C9: when a Recovery stage precedes a stage that panics, Then returns
\* to its caller with a non-nil error; the panic does not leave Then.
C9_PanicContained ==
    \A r \in Runs :
        LET run == runs[r]
            calls == run.calls
            p == RunStages(run)
        IN \A j, k \in 1..Len(calls) :
             (j < k /\ p[j].kind = "Recovery" /\ calls[k].panic # Nil) =>
                /\ run.pc = "returned"
                /\ run.ret.err # NoErr

-----------------------------------------------------------------------------
\* The context nodes that the stage call c allocated into the context it returned.
AddedBy(c) == CtxPath(Mem, c.rctx) \ CtxPath(Mem, c.ctx)

\* C10: a value that stage i adds to the context is visible to every later
\* stage of the same run (it is on the context that stage receives, and the
\* key resolves to it unless a stage in between set the key again); it is
\* not on the caller's original context, which is left as it was, nor on
\* any context of another run.
C10_ContextPropagation ==
    /\ ctxs[0] = InitCtxs
    /\ \A r \in Runs :
         LET run == runs[r]
             calls == run.calls
         IN \A j \in 1..Len(calls) : \A n \in AddedBy(calls[j]) :
              /\ \A k \in (j + 1)..Len(calls) :
                   /\ n \in CtxPath(Mem, calls[k].ctx)
                   /\ (\A m \in j..(k - 1) : \A n2 \in AddedBy(calls[m]) :
                          Node(Mem, n2).key = Node(Mem, n).key => n2 = n)
                      => Value(Mem, calls[k].ctx, Node(Mem, n).key) = Node(Mem, n).val
              /\ n \notin CtxPath(Mem, run.ctx0)
              /\ Value(Mem, run.ctx0, Node(Mem, n).key) = Nil
              /\ \A r2 \in Runs \ {r} :
                   /\ n \notin CtxPath(Mem, runs[r2].ctx0)
                   /\ n \notin CtxPath(Mem, runs[r2].currentCtx)
                   /\ n \notin CtxPath(Mem, runs[r2].ret.ctx)
                   /\ \A k \in 1..Len(runs[r2].calls) :
                        /\ n \notin CtxPath(Mem, runs[r2].calls[k].ctx)
                        /\ n \notin CtxPath(Mem, runs[r2].calls[k].rctx)

\* Two runs started from the same non-root context with different inputs;
\* in one, stage 1 sees the value stage 0 added, which the other run's
\* stage 1 resolves differently.
C10_Witness ==
    \E r, r2 \in Runs :
        /\ r # r2
        /\ runs[r].ctx0 = runs[r2].ctx0
        /\ runs[r].ctx0 # Background
        /\ Len(runs[r].calls) = 3
        /\ Len(runs[r2].calls) = 3
        /\ AddedBy(runs[r].calls[1]) # {}
        /\ Value(Mem, runs[r].calls[3].ctx, StringKey("a")) # Nil
        /\ Value(Mem, runs[r].calls[3].ctx, StringKey("a"))
             # Value(Mem, runs[r2].calls[3].ctx, StringKey("a"))

\* C11: concurrent runs of one pipeline, each on its own context, do not
\* interfere.  Under every interleaving every stage call of a run sees its
\* own position under the index key, receives and returns contexts made
\* only of the caller's nodes and of nodes the run itself allocated, and
\* receives and returns the context contents, input, output and error it
\* does when the run executes alone; a run that has returned has returned
\* the context contents, output and error of the run executed alone.
C11_NoInterference ==
    \A r \in Runs :
        LET run == runs[r]
            calls == run.calls
            solo == SoloThen(InitMem(Runs), r, arrays, chains, run.chain,
                             run.ctx0, run.input0)
            smem == solo.heap
            scalls == solo.run.calls
        IN Started(run) =>
           /\ \A j \in 1..Len(calls) :
                /\ calls[j].idx = j - 1
                /\ Value(Mem, calls[j].ctx, MiddlewareIndexKey) = IntVal(j - 1)
                /\ \A n \in CtxPath(Mem, calls[j].ctx) \cup CtxPath(Mem, calls[j].rctx) :
                     n[1] \in {0, r}
                /\ j <= Len(scalls)
                /\ Contents(Mem, calls[j].ctx) = Contents(smem, scalls[j].ctx)
                /\ Contents(Mem, calls[j].rctx) = Contents(smem, scalls[j].rctx)
                /\ calls[j].input = scalls[j].input
                /\ calls[j].rout = scalls[j].rout
                /\ calls[j].rerr = scalls[j].rerr
           /\ run.pc = "returned" =>
                /\ solo.run.pc = "returned"
                /\ Len(calls) = Len(scalls)
                /\ Contents(Mem, run.ret.ctx) = Contents(smem, solo.run.ret.ctx)
                /\ run.ret.out = solo.run.ret.out
                /\ run.ret.err = solo.run.ret.err

\* Two runs of a named pipeline of three stages are in flight at once, one
\* ahead of the other, both past their first stage; they started from
\* different contexts.
C11_Witness ==
    \E r, r2 \in Runs :
        /\ r # r2
        /\ runs[r].pc = "loop"
        /\ runs[r2].pc = "loop"
        /\ Len(RunStages(runs[r])) = 3
        /\ chains[runs[r].chain].name # ""
        /\ runs[r].ctx0 # runs[r2].ctx0
        /\ Len(runs[r].calls) = 2
        /\ Len(runs[r2].calls) = 1

-----------------------------------------------------------------------------
\* The timerCtx nodes that the stage call c created.
TimersOf(c) == {n \in AddedBy(c) : Node(Mem, n).key = cancelCtxKey}

\* C12: the handle a Timeout stage creates is released by the time the run
\* has returned, whether it succeeded or failed; and every stage invoked
\* after the Timeout stage in that run receives a context that is bound to
\* the stage's deadline and that, as long as the deadline has not passed,
\* is not cancelled.
C12_TimeoutScope ==
    \A r \in Runs :
        LET run == runs[r]
            calls == run.calls
        IN \A j \in 1..Len(calls) :
             calls[j].mw.kind = "Timeout" =>
               /\ TimersOf(calls[j]) # {}
               /\ run.pc = "returned" =>
                    \A n \in TimersOf(calls[j]) : Node(Mem, n).val[3]
               /\ \A k \in (j + 1)..Len(calls) : \A n \in TimersOf(calls[j]) :
                    /\ n \in CtxPath(Mem, calls[k].ctx)
                    /\ calls[k].at < Node(Mem, n).val[2] => calls[k].cerr = NoErr

-----------------------------------------------------------------------------
\* How many times x occurs in the sequence q.
Count(q, x) == Cardinality({k \in 1..Len(q) : q[k] = x})

\* C13: in every call of Conditional(cond, s) in which cond is false, s is
\* not invoked: the call has no effect of s, adds nothing under s's key and
\* passes its input through; in every call in which cond is true, s is
\* invoked exactly once.
C13_ConditionalGate ==
    \A r \in Runs : \A j \in 1..Len(runs[r].calls) :
        LET c == runs[r].calls[j]
            s == c.mw.inner
        IN c.mw.kind = "Conditional" =>
           IF CondHolds(c.mw.cond, Mem, c.ctx, c.input)
           THEN Count(c.effects, <<"invoked", s.tag>>) = 1
           ELSE /\ c.effects = <<>>
                /\ \A n \in AddedBy(c) : Node(Mem, n).key # StringKey(s.tag)
                /\ c.rout = c.input
                /\ c.rerr = NoErr

\* A Conditional stage was called with its condition true and the wrapped
\* stage left its entry on the context and its mark on the output.
C13_Witness ==
    \E r \in Runs : \E j \in 1..Len(runs[r].calls) :
        LET c == runs[r].calls[j]
        IN /\ c.mw.kind = "Conditional"
           /\ CondHolds(c.mw.cond, Mem, c.ctx, c.input)
           /\ c.effects = <<<<"invoked", c.mw.inner.tag>>>>
           /\ Value(Mem, c.rctx, StringKey(c.mw.inner.tag)) = c.input
           /\ c.rout = <<"by", c.mw.inner.tag, c.input>>

\* C14: a call of Validation(v) on input x for which v(x) is an error
\* returns the error "validation failed" wrapping that error, a nil output
\* and the context it received, with nothing added; a call for which v(x)
\* is nil returns x, a nil error and a context on which the metadata key
\* validated is true.
C14_Validation ==
    \A r \in Runs : \A j \in 1..Len(runs[r].calls) :
        LET c == runs[r].calls[j]
            err == ValidatorErr(c.mw.validator, c.input)
        IN c.mw.kind = "Validation" =>
           /\ c.panic = Nil
           /\ IF err # NoErr
              THEN /\ c.rerr = ValidationFailed(err)
                   /\ c.rout = Nil
                   /\ c.rctx = c.ctx
                   /\ AddedBy(c) = {}
              ELSE /\ c.rerr = NoErr
                   /\ c.rout = c.input
                   /\ Value(Mem, c.rctx, StringKey("validated")) = BoolVal(TRUE)

\* A Validation stage accepted a non-nil input on a context that was not
\* tagged before, and the stage after it has been called.
C14_Witness ==
    \E r \in Runs : \E j \in 1..Len(runs[r].calls) :
        LET c == runs[r].calls[j]
        IN /\ c.mw.kind = "Validation"
           /\ c.input # Nil
           /\ c.rerr = NoErr
           /\ Value(Mem, c.ctx, StringKey("validated")) = Nil
           /\ Value(Mem, c.rctx, StringKey("validated")) = BoolVal(TRUE)
           /\ j < Len(runs[r].calls)

\* The pipeline of the specification's example.
ExamplePipeline == <<ObservabilityStage, ValidationStage("notNil"), BusinessLogic>>

\* C15: in a run of [Observability, Validation(not nil), businessLogic] on
\* a nil input, the Observability stage returns a nil error and the nil
\* input, the run returns an error that names position 1 and wraps the
\* validation error, and businessLogic is not invoked.
C15_NilInputExample ==
    \A r \in Runs :
        LET run == runs[r]
            calls == run.calls
        IN (Started(run) /\ RunStages(run) = ExamplePipeline /\ run.input0 = Nil) =>
           /\ run.pc # "panicked"
           /\ Len(calls) <= 2
           /\ Len(calls) >= 1 =>
                /\ calls[1].mw = ObservabilityStage
                /\ calls[1].input = Nil
                /\ calls[1].rerr = NoErr
                /\ calls[1].rout = Nil
           /\ \A j \in 1..Len(calls) :
                /\ calls[j].mw # BusinessLogic
                /\ Count(calls[j].effects, <<"invoked", "businessLogic">>) = 0
           /\ run.pc = "returned" =>
                /\ Len(calls) = 2
                /\ run.ret.out = Nil
                /\ run.ret.err = WrapErr(1, ValidationFailed(ValidatorErr("notNil", Nil)))
           /\ run.pc = "loop" => Len(calls) < 2

\* Such a run, of a named pipeline on a context with a request id, has returned.
C15_Witness ==
    \E r \in Runs :
        /\ runs[r].pc = "returned"
        /\ RunStages(runs[r]) = ExamplePipeline
        /\ runs[r].input0 = Nil
        /\ chains[runs[r].chain].name # ""
        /\ GetRequestID(Mem, runs[r].ctx0).ok
        /\ Len(runs[r].calls) = 2
        /\ Value(Mem, runs[r].ret.ctx, StringKey("observed")) = BoolVal(TRUE)

\* C16: every stage call of a run is made with a context on which
\* MiddlewareIndexKey resolves to the stage's 0-based position, whatever
\* the key resolved to on the caller's context and on the context the
\* stage before returned.
C16_StageIndex ==
    \A r \in Runs : \A j \in 1..Len(runs[r].calls) :
        LET c == runs[r].calls[j]
        IN /\ c.idx = j - 1
           /\ c.mw = RunStages(runs[r])[j]
           /\ Value(Mem, c.ctx, MiddlewareIndexKey) = IntVal(j - 1)

\* The caller's context carried an index entry, stage 0 was still called
\* with index 0, it returned a context with an index entry of its own
\* making, and stage 1 was called with index 1.
C16_Witness ==
    \E r \in Runs :
        LET run == runs[r]
        IN /\ Len(run.calls) >= 2
           /\ Value(Mem, run.ctx0, MiddlewareIndexKey) = IntVal(7)
           /\ Value(Mem, run.calls[1].ctx, MiddlewareIndexKey) = IntVal(0)
           /\ Value(Mem, run.calls[1].rctx, MiddlewareIndexKey) = IntVal(9)
           /\ Value(Mem, run.calls[2].ctx, MiddlewareIndexKey) = IntVal(1)

\* The nodes that goroutine r allocated under the chain-name key.
NameEntries(r) == {k \in 1..Len(ctxs[r]) : ctxs[r][k].key = ChainNameKey}

\* C17: a run of a named pipeline with at least one stage makes one
\* chain-name entry, no more, as its first extension of the caller's
\* context, so that stage 0 is called with a context on which GetChainName
\* yields the name; a run of an unnamed pipeline makes no chain-name entry,
\* and its stage 0 sees what the caller's context says.
C17_ChainName ==
    \A r \in Runs :
        LET run == runs[r]
            name == chains[run.chain].name
        IN (Started(run) /\ Len(RunStages(run)) > 0) =>
           IF name # ""
           THEN /\ NameEntries(r) = {1}
                /\ ctxs[r][1] = [parent |-> run.ctx0, key |-> ChainNameKey,
                                 val |-> StrVal(name)]
                /\ Len(run.calls) >= 1 =>
                     /\ Node(Mem, run.calls[1].ctx).parent = <<r, 1>>
                     /\ GetChainName(Mem, run.calls[1].ctx) = [val |-> name, ok |-> TRUE]
           ELSE /\ NameEntries(r) = {}
                /\ Len(run.calls) >= 1 =>
                     /\ Node(Mem, run.calls[1].ctx).parent = run.ctx0
                     /\ GetChainName(Mem, run.calls[1].ctx) = GetChainName(Mem, run.ctx0)

\* Two runs are past stage 1 of a named pipeline: each made its own name
\* entry, once.
C17_Witness ==
    \E r, r2 \in Runs :
        /\ r # r2
        /\ Len(runs[r].calls) >= 2
        /\ chains[runs[r].chain].name = "svc"
        /\ Len(runs[r2].calls) >= 2
        /\ GetChainName(Mem, runs[r].calls[1].ctx).val = "svc"
        /\ GetChainName(Mem, runs[r2].calls[1].ctx).val = "svc"
        /\ NameEntries(r) = {1}
        /\ NameEntries(r2) = {1}

-----------------------------------------------------------------------------
\* C5: whatever Append, Prepend, Clone and Then calls are made and whatever
\* the caller later writes to the slice it passed to the constructor, every
\* pipeline keeps the stage sequence, length and name it was constructed
\* with; Append and Prepend return a pipeline other than the receiver,
\* which shares no backing array with it or with the caller; and every run
\* of a pipeline invokes its construction-time stages under its
\* construction-time name.
C5_Immutable ==
    /\ Len(born) = Len(chains)
    /\ \A c \in ChainIds :
         /\ StagesOf(arrays, chains, c) = born[c].stages
         /\ ChainLen(arrays, chains, c) = Len(born[c].stages)
         /\ ChainName(chains, c) = born[c].name
         /\ chains[c].middlewares \notin callerSlices
         /\ \A d \in ChainIds \ {c} : chains[d].middlewares # chains[c].middlewares
    /\ \A k \in 1..Len(ops) : ops[k].res # ops[k].recv
    /\ \A r \in Runs :
         LET run == runs[r]
         IN Started(run) =>
            /\ \A j \in 1..Len(run.calls) :
                 /\ j <= Len(born[run.chain].stages)
                 /\ run.calls[j].mw = born[run.chain].stages[j]
            /\ (run.pc = "returned" /\ run.ret.err = NoErr) =>
                 /\ Len(run.calls) = Len(born[run.chain].stages)
                 /\ Len(run.calls) > 0 =>
                      GetChainName(Mem, run.ret.ctx).val = born[run.chain].name

\* The first pipeline was extended, the caller then overwrote the slice it
\* was built from, and a run of it made after the extension has completed.
C5_Witness ==
    /\ Len(chains) >= 2
    /\ \E k \in 1..Len(ops) : ops[k].recv = 1 /\ ops[k].op \in {"Append", "Prepend"}
    /\ arrays[1] # born[1].stages
    /\ \E r \in Runs :
         /\ runs[r].chain = 1
         /\ runs[r].pc = "returned"
         /\ runs[r].opsBefore >= 1
         /\ Len(runs[r].calls) >= 1

\* C6: P.Append(e) holds P's stages followed by e, P.Prepend(e) holds e
\* followed by P's stages, and either has Len(P) + len(e) stages.
C6_AppendPrepend ==
    \A k \in 1..Len(ops) :
        LET o == ops[k]
        IN /\ o.op = "Append" =>
                StagesOf(arrays, chains, o.res) = o.recvStages \o o.ext
           /\ o.op = "Prepend" =>
                StagesOf(arrays, chains, o.res) = o.ext \o o.recvStages
           /\ o.op \in {"Append", "Prepend"} =>
                ChainLen(arrays, chains, o.res) = o.recvLen + Len(o.ext)

\* An Append and a Prepend of a non-empty list that differs from the
\* receiver's non-empty sequence have both been made.
C6_Witness ==
    /\ \E k \in 1..Len(ops) :
         /\ ops[k].op = "Append"
         /\ ops[k].recvStages # <<>>
         /\ ops[k].ext # <<>>
         /\ ops[k].ext # ops[k].recvStages
    /\ \E k \in 1..Len(ops) :
         /\ ops[k].op = "Prepend"
         /\ ops[k].recvStages # <<>>
         /\ ops[k].ext # <<>>
         /\ ops[k].ext # ops[k].recvStages

-----------------------------------------------------------------------------
(* Observations on the RateLimit log *)

IsCall(e) == e.ev \in {"ok", "reject"}
Calls == SelectSeq(hist, IsCall)

\* Position in hist of the last refill, or 0.
LastRefill == 
    LET at == {k \in 1..Len(hist) : hist[k].ev = "refill"}
    IN IF at = {} THEN 0 ELSE CHOOSE k \in at : \A m \in at : m <= k

\* The invocations that succeeded since the last refill.
OkSinceRefill == Cardinality({k \in (LastRefill + 1)..Len(hist) : hist[k].ev = "ok"})

\* C7: under every interleaving of concurrent invocations the bucket is
\* never overdrawn: the token count never drops below 0 and no more than
\* capacity invocations succeed between two consecutive refills.
C7_NeverOverdrawn ==
    /\ bucket.tokens >= 0
    /\ OkSinceRefill <= bucket.capacity

\* C8: invoked one call at a time, a stage of capacity C and interval D
\* admits C invocations made at one instant and rejects the (C+1)-th with
\* the rate-limit-exceeded error; an invocation made at least D after the
\* previous one finds the bucket reset, succeeds and records C-1 as the
\* remaining count.
C8_TokenBucket ==
    LET C == bucket.capacity
        D == bucket.refillRate
    IN /\ \A i \in 1..Len(Calls) : \A j \in i..Len(Calls) :
            ( /\ i = 1 \/ Calls[i].at - Calls[i - 1].at >= D
              /\ Calls[j].at = Calls[i].at )
            => /\ (j - i + 1 <= C) => Calls[j].ev = "ok"
               /\ (j - i + 1 = C + 1) => Calls[j].ev = "reject"
       /\ \A i \in 2..Len(Calls) :
            Calls[i].at - Calls[i - 1].at >= D
            => /\ Calls[i].ev = "ok"
               /\ Calls[i].refilled
               /\ Calls[i].remaining = IntVal(C - 1)
       /\ \A p \in Procs :
            procs[p].pc = "done" =>
               \/ procs[p].ret.err = NoErr
               \/ procs[p].ret.err = RateLimitExceeded /\ procs[p].ret.out = Nil

\* A bucket of capacity 2 admitted two immediate invocations, rejected the
\* third, and after the interval admitted a fourth with 1 remaining.
C8_Witness ==
    /\ bucket.capacity = 2
    /\ Len(Calls) = 4
    /\ Calls[1].at = Calls[3].at
    /\ Calls[2].ev = "ok"
    /\ Calls[3].ev = "reject"
    /\ Calls[4].at - Calls[3].at >= bucket.refillRate
    /\ Calls[4].remaining = IntVal(1)

\* C19: invoked one call at a time, with time passing between and during
\* the calls, the stage keeps its token count between 0 and its capacity
\* in every state, the states in the middle of an invocation included.
C19_TokenRange ==
    /\ 0 <= bucket.tokens
    /\ bucket.tokens <= bucket.capacity
    /\ \A k \in 1..Len(hist) :
         /\ 0 <= hist[k].after.tokens
         /\ hist[k].after.tokens <= hist[k].after.capacity

\* The bucket was emptied, an invocation was rejected, and a refill has
\* just put the count back at the capacity.
C19_Witness ==
    /\ Len(hist) >= 2
    /\ \E k \in 1..Len(hist) : hist[k].ev = "reject" /\ hist[k].after.tokens = 0
    /\ hist[Len(hist)].ev = "refill"
    /\ bucket.tokens = bucket.capacity

\* C20: an invocation made at time t on a bucket b leaves the bucket as
\* follows.  If t - b.lastRefill >= b.refillRate the count is first set to
\* the capacity and lastRefill to t; otherwise both stay as they are.  Then
\* an invocation that succeeds takes exactly one token, and one that is
\* rejected takes none; capacity and interval never change.  A rejected
\* invocation returns the context it was called with and a nil output.
C20_BucketFrame ==
    /\ \A k \in 1..Len(Calls) :
         LET e == Calls[k]
             b == e.before
             due == e.at - b.lastRefill >= b.refillRate
             base == IF due THEN b.capacity ELSE b.tokens
         IN /\ e.refilled = due
            /\ e.after.capacity = b.capacity
            /\ e.after.refillRate = b.refillRate
            /\ e.after.lastRefill = IF due THEN e.at ELSE b.lastRefill
            /\ e.ev = "ok" => e.after.tokens = base - 1
            /\ e.ev = "reject" => e.after.tokens = base
    /\ \A p \in Procs :
         procs[p].pc = "done" =>
            IF procs[p].ret.err = NoErr
            THEN Node(Mem, procs[p].ret.ctx).parent = ProcCtx(p)
            ELSE /\ procs[p].ret.err = RateLimitExceeded
                 /\ procs[p].ret.ctx = ProcCtx(p)
                 /\ procs[p].ret.out = Nil

\* The log holds an invocation admitted without a refill, one rejected
\* that was made with a context of its own, and one admitted by a refill
\* of an empty bucket.
C20_Witness ==
    /\ \E k \in 1..Len(Calls) : Calls[k].ev = "ok" /\ ~Calls[k].refilled
    /\ \E k \in 1..Len(Calls) :
         /\ Calls[k].ev = "reject"
         /\ procs[Calls[k].p].ret.ctx # Background
    /\ \E k \in 1..Len(Calls) :
         /\ Calls[k].ev = "ok"
         /\ Calls[k].refilled
         /\ Calls[k].before.tokens = 0
         /\ Calls[k].after.lastRefill > Calls[k].before.lastRefill

-----------------------------------------------------------------------------
\* C21: every AddMetadata(ctx, k, v), and every set under a typed key,
\* returns a new context that resolves the key to the value and every
\* other key as ctx does, while ctx goes on resolving every key as it did
\* before the call; an AddMetadata leaves what GetRequestID, GetUserID,
\* GetChainName, the stage index and the start time return as they were,
\* and a set under a typed key leaves what GetMetadata, GetMetadataString
\* and GetMetadataBool return for every string key as they were.
C21_MetadataStore ==
    \A i \in 1..Len(metaLog) :
        LET e == metaLog[i]
        IN /\ e.res # e.ctx
           /\ \A j \in 1..(i - 1) : e.res \notin {metaLog[j].res, metaLog[j].ctx}
           /\ View(Mem, e.res) = [e.before EXCEPT ![e.key] = e.val]
           /\ View(Mem, e.ctx) = e.before
           /\ e.op = "AddMetadata" =>
                /\ GetRequestID(Mem, e.res) = GetRequestID(Mem, e.ctx)
                /\ GetUserID(Mem, e.res) = GetUserID(Mem, e.ctx)
                /\ GetChainName(Mem, e.res) = GetChainName(Mem, e.ctx)
                /\ Value(Mem, e.res, MiddlewareIndexKey) = Value(Mem, e.ctx, MiddlewareIndexKey)
                /\ Value(Mem, e.res, StartTimeKey) = Value(Mem, e.ctx, StartTimeKey)
           /\ e.op = "typed" =>
                \A k \in MetaKeys :
                    /\ GetMetadata(Mem, e.res, k) = GetMetadata(Mem, e.ctx, k)
                    /\ GetMetadataString(Mem, e.res, k) = GetMetadataString(Mem, e.ctx, k)
                    /\ GetMetadataBool(Mem, e.res, k) = GetMetadataBool(Mem, e.ctx, k)

\* On a context that carries the request id rid0, the string key
\* "request_id" was given a value with AddMetadata and the request id was
\* then set anew on the result: the three entries resolve side by side.
C21_Witness ==
    /\ Len(metaLog) = 2
    /\ metaLog[1].op = "AddMetadata"
    /\ metaLog[1].ctx = <<0, 1>>
    /\ metaLog[1].key = StringKey("request_id")
    /\ metaLog[2].ctx = metaLog[1].res
    /\ metaLog[2].key = requestKey
    /\ GetRequestID(Mem, metaLog[1].res).val = "rid0"
    /\ GetRequestID(Mem, metaLog[2].res).val = "r1"
    /\ GetMetadataString(Mem, metaLog[2].res, "request_id").val = "a"

\* Whether key was set with AddMetadata on ctx or on a context it descends from.
WasSet(h, ctx, key) == \E n \in CtxPath(h, ctx) : Node(h, n).key = StringKey(key)

\* C22: for every context and every string key, GetMetadata reports found
\* exactly when the key was set with AddMetadata somewhere on the context's
\* chain, whatever the value stored.
C22_GetMetadataFound ==
    \A ctx \in LiveCtxs : \A k \in MetaKeys :
        GetMetadata(Mem, ctx, k).ok = WasSet(Mem, ctx, k)

-----------------------------------------------------------------------------
\* The memory as it was when goroutine r made the stage call c: the context
\* the call was made with was the last node r had allocated.
HeapAt(r, c) == [mem |-> [ctxs EXCEPT ![r] = SubSeq(@, 1, c.ctx[2])], arena |-> r]

\* C23: a call of Conditional(cond, s) with cond true returns the context,
\* output and error that s returns when called with the same context and
\* input, has the effects of that call of s, and adds no skipped tag; when
\* s fails, the run returns the error wrapped with the position of the
\* Conditional stage.  A call with cond false returns the input, a nil
\* error and the incoming context extended by the single entry
\* conditional_skipped = true.
C23_ConditionalDelegates ==
    \A r \in Runs : \A j \in 1..Len(runs[r].calls) :
        LET c == runs[r].calls[j]
            direct == StageCall(c.mw.inner, HeapAt(r, c), c.ctx, c.input)
        IN c.mw.kind = "Conditional" =>
           IF CondHolds(c.mw.cond, Mem, c.ctx, c.input)
           THEN /\ c.rctx = direct.ctx
                /\ Contents(Mem, c.rctx) = Contents(direct.heap, direct.ctx)
                /\ c.rout = direct.out
                /\ c.rerr = direct.err
                /\ c.effects = direct.effects
                /\ \A n \in AddedBy(c) : Node(Mem, n).key # StringKey("conditional_skipped")
                /\ c.rout = <<"by", c.mw.inner.tag, c.input>>
                /\ Value(Mem, c.rctx, StringKey(c.mw.inner.tag)) = c.input
                /\ c.mw.inner.outcome = "err" =>
                     /\ c.rerr = <<"err", c.mw.inner.tag>>
                     /\ runs[r].pc = "returned"
                     /\ runs[r].ret.err = WrapErr(j - 1, c.rerr)
                     /\ runs[r].ret.ctx = c.rctx
                     /\ j = Len(runs[r].calls)
           ELSE /\ c.rout = c.input
                /\ c.rerr = NoErr
                /\ AddedBy(c) = {c.rctx}
                /\ Node(Mem, c.rctx) = [parent |-> c.ctx,
                                        key |-> StringKey("conditional_skipped"),
                                        val |-> BoolVal(TRUE)]

\* A run passed a Conditional stage whose condition was false and then
\* failed at position 1 or later in a Conditional stage whose condition was
\* true and whose wrapped stage returned an error.
C23_Witness ==
    \E r \in Runs : \E i, j \in 1..Len(runs[r].calls) :
        LET run == runs[r]
        IN /\ i < j
           /\ run.calls[i].mw.kind = "Conditional"
           /\ run.calls[i].rctx # run.calls[i].ctx
           /\ Value(Mem, run.calls[i].rctx, StringKey("conditional_skipped")) = BoolVal(TRUE)
           /\ run.calls[j].mw.kind = "Conditional"
           /\ run.calls[j].rerr # NoErr
           /\ run.pc = "returned"
           /\ run.ret.err = WrapErr(j - 1, <<"err", "t">>)

\* C24: a call of the RequestID stage with a context that carries a
\* request id calls the generator exactly once and returns a context on
\* which GetRequestID yields the generated id, not the one that was there;
\* the context it was called with still yields the old id; the input is
\* returned as it is, with a nil error.
C24_RequestIDPresent ==
    \A r \in Runs : \A j \in 1..Len(runs[r].calls) :
        LET c == runs[r].calls[j]
            old == GetRequestID(Mem, c.ctx)
        IN (c.mw.kind = "RequestID" /\ old.ok) =>
           /\ Count(c.effects, <<"generator">>) = 1
           /\ GetRequestID(Mem, c.rctx) = [val |-> GeneratedID, ok |-> TRUE]
           /\ AddedBy(c) = {c.rctx}
           /\ Node(Mem, c.rctx).parent = c.ctx
           /\ old = GetRequestID(HeapAt(r, c), c.ctx)
           /\ c.rout = c.input
           /\ c.rerr = NoErr
           /\ c.panic = Nil

\* The RequestID stage was called on a context carrying rid0 and with a
\* non-nil input; the stage after it was called with the generated id.
C24_Witness ==
    \E r \in Runs : \E j \in 1..Len(runs[r].calls) :
        LET c == runs[r].calls[j]
        IN /\ c.mw.kind = "RequestID"
           /\ GetRequestID(Mem, c.ctx).val = "rid0"
           /\ GetRequestID(Mem, c.rctx).val # "rid0"
           /\ c.input # Nil
           /\ j < Len(runs[r].calls)
           /\ GetRequestID(Mem, runs[r].calls[j + 1].ctx).val = GeneratedID

====
